---- MODULE Spec2Model ----
(***************************************************************************)
(* Model of src/src/core/Extension.ts (vscode-syncing): the extension      *)
(* synchronisation engine.  One sync run computes a diff between the       *)
(* desired list and the host's extension registry, then runs the add,      *)
(* update and remove stages item by item, then reconciles the `.obsolete`  *)
(* ledger.                                                                 *)
(*                                                                         *)
(* The host registry (vscode.extensions.all) is a snapshot the host takes  *)
(* when it starts: copying or deleting directories does not change it      *)
(* during a run.  Reload models the restart of the host between two runs.  *)
(***************************************************************************)
EXTENDS Integers, Sequences, FiniteSets, TLC

\* ---------------------------------------------------------------- bounds
MaxDesired == 2      \* longest desired list of a sync run
MaxRuns == 2         \* sync runs in one behaviour
MaxDiffDesired == 2  \* longest desired list of a diff computed on its own
MaxVersion == 2      \* versions are 1..MaxVersion

\* ------------------------------------------------------------ value sets
IDS == {"a", "A", "b"}
Versions == 1..MaxVersion

\* Case folding of an extension ID (CaseInsensitiveMap/Set, minimatch nocase).
Lower(id) == IF id = "A" THEN "a" ELSE IF id = "B" THEN "b" ELSE id

Keys == {Lower(id) : id \in IDS}

\* A desired record as the caller supplies it (IExtension).
Ext(id, v) == [id |-> id, version |-> v, downloadURL |-> "", vsixFilepath |-> ""]

DesiredRecords == {Ext(id, v) : id \in IDS, v \in Versions}

SeqsUpTo(S, n) == UNION {[1..k -> S] : k \in 0..n}

\* The desired lists a diff is computed for on its own.
DesiredLists == SeqsUpTo(DesiredRecords, MaxDiffDesired)

\* The desired lists of the sync runs.
SyncRecords == {Ext("a", 1), Ext("a", 2), Ext("A", 1), Ext("b", 1)}

SyncLists == SeqsUpTo(SyncRecords, MaxDesired)

\* Directory of the user extension folder: `publisher.name-version`.
getExtensionDirectoryName(ext) == <<ext.id, ext.version>>

getExtensionDirectory(ext) == getExtensionDirectoryName(ext)

DirNames == IDS \X Versions

\* Install directory of a built-in extension (in the application folder).
BuiltinPath == <<"b", 0>>

Paths == DirNames \cup {BuiltinPath}

\* What a directory holds.
Contents == {"absent", "payload", "empty", "partial", "stale", "mixed"}

NoExt == [id |-> "", version |-> 0, isBuiltin |-> FALSE, extensionPath |-> <<"", 0>>]

\* An entry of vscode.extensions.all.
Local(id, v, b) ==
  [id |-> id, version |-> v, isBuiltin |-> b,
   extensionPath |-> IF b THEN BuiltinPath ELSE <<id, v>>]

Range(s) == {s[k] : k \in 1..Len(s)}

\* The registries of the initial states: at most one entry per ID, ordered.
InitRegistries ==
  {ra \o rb :
     ra \in {<<>>, <<Local("a", 1, FALSE)>>, <<Local("a", 2, FALSE)>>},
     rb \in {<<>>, <<Local("b", 1, FALSE)>>, <<Local("b", 1, TRUE)>>}}

\* The registries a diff is computed against on its own.
DiffRegistries ==
  {ra \o rb :
     ra \in {<<>>} \cup {<<Local(id, v, FALSE)>> : id \in {"a", "A"}, v \in Versions},
     rb \in {<<>>, <<Local("b", 1, TRUE)>>} \cup {<<Local("b", v, FALSE)>> : v \in Versions}}

\* Exclusion patterns (globs); "*" matches every ID.
PatternSets == {{}, {"A"}, {"B"}, {"*"}}

SyncPatternSets == {{}, {"A"}}

\* Registry metadata per key: version 0 / url "" stand for a missing value.
Meta(v, u) == [version |-> v, downloadURL |-> u]
NoMeta == Meta(0, "")
AutoOff == [on |-> FALSE, q |-> [k \in Keys |-> NoMeta]]
AutoLatest(v) == [on |-> TRUE, q |-> [k \in Keys |-> IF k = "a" THEN Meta(v, "latest") ELSE NoMeta]]
AutoNoURL(v) == [on |-> TRUE, q |-> [k \in Keys |-> IF k = "a" THEN Meta(v, "") ELSE NoMeta]]
AutoNoVersion == [on |-> TRUE, q |-> [k \in Keys |-> IF k = "a" THEN Meta(0, "latest") ELSE NoMeta]]
\* The setting is off; q is what the registry would answer if it were asked.
AutoOffLatest(v) == [on |-> FALSE, q |-> AutoLatest(v).q]

AutoConfigs ==
  {AutoOff, AutoOffLatest(MaxVersion), AutoLatest(MaxVersion), AutoNoURL(MaxVersion),
   AutoNoVersion}

SyncAutoConfigs == {AutoOff, AutoLatest(2)}

\* The ledger file: absent, corrupt (unparsable) or a map, given by the set
\* of its keys (every value is `true`).
Absent == [st |-> "absent", keys |-> {}]
Corrupt == [st |-> "corrupt", keys |-> {}]
Ledger(keys) == [st |-> "map", keys |-> keys]
\* A sync run starts with a ledger file: without one the ledger step does
\* nothing (the direct calls below start from every kind of file).
InitLedgers == {Ledger({<<"a", 1>>, <<"b", 1>>})}

VARIABLES
  registry,     \* vscode.extensions.all: sequence of Local entries
  disk,         \* Paths -> Contents
  ledger,       \* the .obsolete file
  desired,      \* the desired list handed to sync (records mutated in place)
  given,        \* history: the desired list as it was when the diff began
  call,         \* history: the last extractExtension call of the run
  patterns,     \* setting syncing.excludedExtensions
  auto,         \* setting syncing.extensions.autoUpdate and the query's answer
  diff,         \* result of _getDifferentExtensions
  pc,           \* "idle", "add", "update", "remove", "obsolete", "done"; "diffed"
  idx,          \* position in the current stage's list
  sub,          \* sub-step of the current item
  steps,        \* `steps` of the current stage
  result,       \* ISyncedItem.extension: six sequences
  cur,          \* the local `extension` of the stage loop (download's result)
  obsCall,      \* arguments and outcome of the updateObsolete call
  runs,         \* sync runs started
  prevClean,    \* the previous run had no failed item
  failedAt,     \* history: the <<stage, position>> whose sub-step failed in this run
  failedSub     \* history: the <<stage, position, sub-step>> that failed in this run

vars == <<registry, disk, ledger, desired, given, call, patterns, auto, diff, pc, idx, sub,
          steps, result, cur, obsCall, runs, prevClean, failedAt, failedSub>>

\* ------------------------------------------------------------ collaborators

\* utils/vscodeAPI getExtensionById: case-insensitive lookup in the registry.
getExtensionById(reg, id) ==
  IF \E k \in 1..Len(reg) : Lower(reg[k].id) = Lower(id)
  THEN reg[CHOOSE k \in 1..Len(reg) :
             /\ Lower(reg[k].id) = Lower(id)
             /\ \A j \in 1..(k - 1) : Lower(reg[j].id) # Lower(id)]
  ELSE NoExt

\* Faulty variant of minimatch: without `nocase`.
minimatchCaseSensitive(id, pattern) == pattern = "*" \/ pattern = id

\* minimatch(id, pattern, { nocase: true }) for the patterns of PatternSets.
minimatch(id, pattern) == pattern = "*" \/ Lower(pattern) = Lower(id)

\* Faulty variant of getAll: built-in extensions are listed too.
getAllWithBuiltins(reg, excludedPatterns) ==
  LET kept == SelectSeq(reg, LAMBDA e : ~\E p \in excludedPatterns : minimatch(e.id, p))
  IN [k \in 1..Len(kept) |-> Ext(kept[k].id, kept[k].version)]

\* Extension.getAll: installed, not built-in, matched by no excluded pattern.
getAll(reg, excludedPatterns) ==
  LET kept == SelectSeq(reg, LAMBDA e :
                 /\ ~e.isBuiltin
                 /\ ~\E p \in excludedPatterns : minimatch(e.id, p))
  IN [k \in 1..Len(kept) |-> Ext(kept[k].id, kept[k].version)]

\* ------------------------------------------------- _getDifferentExtensions

\* Faulty variant of AutoUpdate: the latest version is taken even when the
\* metadata has no download URL.
AutoUpdateVersionOnly(ext, au) ==
  LET extensionMeta == au.q[Lower(ext.id)]
  IN IF au.on /\ extensionMeta.version # 0
     THEN [ext EXCEPT !.version = extensionMeta.version,
                      !.downloadURL = IF extensionMeta.downloadURL # ""
                                      THEN extensionMeta.downloadURL ELSE @]
     ELSE ext

\* Step 2 of the loop body: rewrite the record to the registry's latest.
AutoUpdate(ext, au) ==
  LET extensionMeta == au.q[Lower(ext.id)]
  IN IF au.on /\ extensionMeta.version # 0 /\ extensionMeta.downloadURL # ""
     THEN [ext EXCEPT !.version = extensionMeta.version,
                      !.downloadURL = extensionMeta.downloadURL]
     ELSE ext

\* Faulty variant of Classify: an installed version at or above the desired one counts
\* as reserved (no downgrade).
ClassifyNoDowngrade(reg, ext) ==
  LET localExtension == getExtensionById(reg, ext.id)
  IN IF localExtension # NoExt
     THEN IF localExtension.version >= ext.version THEN "reserved" ELSE "updated"
     ELSE "added"

\* The branch of the loop body a (rewritten) record takes.
Classify(reg, ext) ==
  LET localExtension == getExtensionById(reg, ext.id)
  IN IF localExtension # NoExt
     THEN IF localExtension.version = ext.version THEN "reserved" ELSE "updated"
     ELSE "added"

IndicesOf(exts, reg, cls) ==
  SelectSeq([k \in 1..Len(exts) |-> k], LAMBDA k : Classify(reg, exts[k]) = cls)

\* reservedExtensionIDs, a CaseInsensitiveSet.
reservedExtensionIDs(exts, reg) ==
  {Lower(exts[k].id) : k \in {j \in 1..Len(exts) : Classify(reg, exts[j]) = "reserved"}}

\* The removed list: the inventory minus the reserved IDs.
RemovedOf(exts, reg, pats) ==
  SelectSeq(getAll(reg, pats), LAMBDA e : Lower(e.id) \notin reservedExtensionIDs(exts, reg))

\* added and updated hold positions of the desired list (the very objects of
\* the caller's array); removed holds the records getAll creates.
getDifferentExtensions(extensions, reg, pats, au) ==
  LET exts == [k \in 1..Len(extensions) |-> AutoUpdate(extensions[k], au)]
  IN [desired |-> exts,
      added   |-> IndicesOf(exts, reg, "added"),
      updated |-> IndicesOf(exts, reg, "updated"),
      removed |-> RemovedOf(exts, reg, pats)]

total(d) == Len(d.added) + Len(d.removed) + Len(d.updated)

\* The records behind the positions.
AddedRecs == [i \in 1..Len(diff.added) |-> desired[diff.added[i]]]
UpdatedRecs == [i \in 1..Len(diff.updated) |-> desired[diff.updated[i]]]
RemovedRecs == diff.removed

\* ------------------------------------------------------------- the stages

NoCur == Ext("", 0)

\* No extractExtension call yet.
NoInstall == [tmpdir |-> FALSE, error |-> "none", before |-> "absent"]

NoCall == [called |-> 0, added |-> <<>>, removed |-> <<>>, updated |-> <<>>,
           file |-> Absent, io |-> "none"]


EmptyResult ==
  [added |-> <<>>, addedErrors |-> <<>>, updated |-> <<>>, updatedErrors |-> <<>>,
   removed |-> <<>>, removedErrors |-> <<>>]

StageList(d, stage) ==
  CASE stage = "add" -> d.added
    [] stage = "update" -> d.updated
    [] stage = "remove" -> d.removed

\* Faulty variant of Progress: every stage counts from zero.
ProgressRestarts(d, stage) == 0

\* `progress` of the stage's options in sync.
Progress(d, stage) ==
  CASE stage = "add" -> 0
    [] stage = "update" -> Len(d.added)
    [] stage = "remove" -> Len(d.added) + Len(d.updated)

FirstSub(stage) == IF stage = "remove" THEN "uninstall" ELSE "download"

At(stage, i, st) == [pc |-> stage, idx |-> i, sub |-> FirstSub(stage), steps |-> st]

\* After the remove stage: Toast.clearSpinner, then the updateObsolete call.
AtObsolete(st) == [pc |-> "obsolete", idx |-> 0, sub |-> "none", steps |-> st]

\* `for (const task of tasks) await task()`: the first stage from `stage` on
\* that has an item; a stage with no item returns at once.  Each stage starts
\* with `steps = progress`.
EnterStage(d, stage, st) ==
  LET fromRemove == IF Len(d.removed) > 0 THEN At("remove", 1, Progress(d, "remove"))
                    ELSE AtObsolete(st)
      fromUpdate == IF Len(d.updated) > 0 THEN At("update", 1, Progress(d, "update"))
                    ELSE fromRemove
      fromAdd    == IF Len(d.added) > 0 THEN At("add", 1, Progress(d, "add")) ELSE fromUpdate
  IN CASE stage = "add" -> fromAdd
       [] stage = "update" -> fromUpdate
       [] stage = "remove" -> fromRemove

\* Faulty variant of NextStage: the remove stage runs right after the add stage.
NextStageSkipsUpdate(stage) == "remove"

NextStage(stage) == IF stage = "add" THEN "update" ELSE "remove"

\* Where control is once item i of `stage` has been pushed to a result list.
AfterItem(d, stage, i, st) ==
  IF i < Len(StageList(d, stage))
  THEN At(stage, i + 1, st)
  ELSE IF stage = "remove"
       THEN AtObsolete(st)
       ELSE EnterStage(d, NextStage(stage), st)

Goto(pos) ==
  /\ pc' = pos.pc
  /\ idx' = pos.idx
  /\ sub' = pos.sub
  /\ steps' = pos.steps

OkField(stage) ==
  CASE stage = "add" -> "added" [] stage = "update" -> "updated" [] stage = "remove" -> "removed"

ErrField(stage) ==
  CASE stage = "add" -> "addedErrors" [] stage = "update" -> "updatedErrors"
    [] stage = "remove" -> "removedErrors"

\* Faulty variant of Push: a failed item replaces the error list instead of joining it.
PushOverwritesErrors(res, stage, item, ok) ==
  IF ok THEN [res EXCEPT ![OkField(stage)] = Append(@, item)]
  ELSE [res EXCEPT ![ErrField(stage)] = <<item>>]

\* result.<stage>.push(item) / result.<stage>Errors.push(item), then the next item.
Push(res, stage, item, ok) ==
  LET f == IF ok THEN OkField(stage) ELSE ErrField(stage)
  IN [res EXCEPT ![f] = Append(@, item)]

\* Faulty variant of ItemDone: the catch rethrows, a failed item ends the run.
ItemDoneAborts(ok, st) ==
  /\ result' = Push(result, pc, StageList(diff, pc)[idx], ok)
  /\ IF ok THEN Goto(AfterItem(diff, pc, idx, st))
     ELSE Goto([pc |-> "aborted", idx |-> 0, sub |-> "none", steps |-> st])
  /\ cur' = NoCur

\* `st` is the stage's `steps` when the item ends.
ItemDone(ok, st) ==
  /\ result' = Push(result, pc, StageList(diff, pc)[idx], ok)
  /\ Goto(AfterItem(diff, pc, idx, st))
  /\ cur' = NoCur

\* Extension.sync up to the first await of a stage: the diff and the options.
Begin(extensions, pats, au) ==
  LET d == getDifferentExtensions(extensions, registry, pats, au)
      df == [added |-> d.added, updated |-> d.updated, removed |-> d.removed]
  IN /\ desired' = d.desired
     /\ given' = extensions
     /\ call' = NoInstall
     /\ patterns' = pats
     /\ auto' = au
     /\ diff' = df
     /\ Goto(EnterStage(df, "add", 0))
     /\ result' = EmptyResult
     /\ cur' = NoCur
     /\ obsCall' = NoCall
     /\ runs' = runs + 1
     /\ failedAt' = {}
     /\ failedSub' = {}
     /\ UNCHANGED <<registry, disk, ledger>>

NoFailures(res) == res.addedErrors = <<>> /\ res.updatedErrors = <<>> /\ res.removedErrors = <<>>

Sync(extensions, pats, au) ==
  /\ pc = "idle"
  /\ runs = 0
  /\ Begin(extensions, pats, au)
  /\ UNCHANGED prevClean

\* A second run with the same desired list and settings.
SyncAgain ==
  /\ pc = "idle"
  /\ runs \in 1..(MaxRuns - 1)
  /\ Begin(desired, patterns, auto)
  /\ prevClean' = NoFailures(result)

\* downloadExtension: "tmp" = tmp.file failed, "net" = downloadFile failed.
DownloadOutcomes == {"ok", "net"}

\* The URL downloadExtension writes into the record when it has none.
WithFallbackURL(ext) == IF ext.downloadURL = "" THEN [ext EXCEPT !.downloadURL = "fallback"] ELSE ext

\* First sub-step of an added or updated item: steps++, then the download.
Download(o) ==
  /\ pc \in {"add", "update"}
  /\ sub = "download"
  /\ LET k == StageList(diff, pc)[idx]
         item == IF o = "tmp" THEN desired[k] ELSE WithFallbackURL(desired[k])
     IN /\ desired' = [desired EXCEPT ![k] = item]
        /\ IF o = "ok"
           THEN /\ cur' = [item EXCEPT !.vsixFilepath = "tmpfile"]
                /\ sub' = IF pc = "add" THEN "extract" ELSE "uninstall"
                /\ steps' = steps + 1
                /\ UNCHANGED <<pc, idx, result>>
           ELSE ItemDone(FALSE, steps + 1)
  /\ failedAt' = IF o = "ok" THEN failedAt ELSE failedAt \cup {<<pc, idx>>}
  /\ failedSub' = IF o = "ok" THEN failedSub ELSE failedSub \cup {<<pc, idx, sub>>}
  /\ UNCHANGED <<registry, disk, ledger, given, call, patterns, auto, diff, obsCall, runs, prevClean>>

\* The directory uninstallExtension removes.
UninstallPath(reg, ext) ==
  LET localExtension == getExtensionById(reg, ext.id)
  IN IF localExtension # NoExt THEN localExtension.extensionPath ELSE getExtensionDirectory(ext)

\* fs.remove: "ok" removes the directory (a missing one is no error); "err"
\* throws and leaves the directory.
uninstallExtension(d, reg, ext, o) ==
  LET path == UninstallPath(reg, ext)
  IN CASE o = "ok" -> [d EXCEPT ![path] = "absent"]
       [] o = "err" -> d

UninstallOutcomes == {"ok", "err"}

\* Faulty variant of Uninstall: the update goes on to the install whether or
\* not the previous version could be removed.
UninstallIgnoresFailure(o) ==
  /\ \/ pc = "update" /\ sub = "uninstall"
     \/ pc = "remove"
  /\ LET ext == IF pc = "remove" THEN diff.removed[idx] ELSE cur
         st == IF pc = "remove" THEN steps + 1 ELSE steps
     IN /\ disk' = uninstallExtension(disk, registry, ext, o)
        /\ IF pc = "update"
           THEN /\ sub' = "extract"
                /\ UNCHANGED <<pc, idx, steps, result, cur>>
           ELSE ItemDone(o = "ok", st)
  /\ failedAt' = IF o = "ok" THEN failedAt ELSE failedAt \cup {<<pc, idx>>}
  /\ failedSub' = IF o = "ok" THEN failedSub ELSE failedSub \cup {<<pc, idx, sub>>}
  /\ UNCHANGED <<registry, ledger, desired, given, call, patterns, auto, diff, obsCall, runs, prevClean>>

\* Second sub-step of an updated item, or the only sub-step of a removed one.
Uninstall(o) ==
  /\ \/ pc = "update" /\ sub = "uninstall"
     \/ pc = "remove"
  /\ LET ext == IF pc = "remove" THEN diff.removed[idx] ELSE cur
         st == IF pc = "remove" THEN steps + 1 ELSE steps
     IN /\ disk' = uninstallExtension(disk, registry, ext, o)
        /\ IF o = "ok" /\ pc = "update"
           THEN /\ sub' = "extract"
                /\ UNCHANGED <<pc, idx, steps, result, cur>>
           ELSE ItemDone(o = "ok", st)
  /\ failedAt' = IF o = "ok" THEN failedAt ELSE failedAt \cup {<<pc, idx>>}
  /\ failedSub' = IF o = "ok" THEN failedSub ELSE failedSub \cup {<<pc, idx, sub>>}
  /\ UNCHANGED <<registry, ledger, desired, given, call, patterns, auto, diff, obsCall, runs, prevClean>>

\* Faulty variant of emptyDir: the directory is created but not emptied.
emptyDirKeeps(c) == IF c = "absent" THEN "empty" ELSE c

\* fs.emptyDir: the directory exists and holds nothing.
emptyDir(c) == "empty"

\* fs.copy of the archive's `extension` folder into a directory: files of the
\* directory that are not in the payload stay.
copyPayload(c) ==
  CASE c \in {"absent", "empty", "payload"} -> "payload"
    [] c \in {"partial", "stale", "mixed"} -> "mixed"

\* Faulty variant of extractExtension: the target is emptied before the
\* archive path is looked at.
extractExtensionEmptiesFirst(d, ext, o) ==
  LET extPath == getExtensionDirectory(ext)
  IN IF ext.vsixFilepath = "" THEN [d EXCEPT ![extPath] = emptyDir(@)]
     ELSE CASE o = "ok" -> [d EXCEPT ![extPath] = copyPayload(emptyDir(@))]
            [] o \in {"tmp", "zip"} -> d
            [] o = "copy" -> [d EXCEPT ![extPath] = "partial"]

\* extractExtension: without a vsixFilepath it rejects at once; "tmp" = tmp.dir
\* failed, "zip" = extractZip failed, "copy" = fs.emptyDir or fs.copy failed
\* part-way.
extractExtension(d, ext, o) ==
  LET extPath == getExtensionDirectory(ext)
  IN IF ext.vsixFilepath = "" THEN d
     ELSE CASE o = "ok" -> [d EXCEPT ![extPath] = copyPayload(emptyDir(@))]
            [] o \in {"tmp", "zip"} -> d
            [] o = "copy" -> [d EXCEPT ![extPath] = "partial"]

ExtractOutcomes == {"ok", "zip", "copy"}

extractOk(ext, o) == ext.vsixFilepath # "" /\ o = "ok"

\* What a call of extractExtension did: whether tmp.dir handed out a
\* directory, the message it rejected with, and what the target held before.
extractCall(d, ext, o) ==
  [tmpdir |-> ext.vsixFilepath # "" /\ o # "tmp",
   error  |-> IF ext.vsixFilepath = "" THEN "error.extract.extension-3"
              ELSE CASE o = "ok" -> "none"
                     [] o = "tmp" -> "error.extract.extension-2"
                     [] o \in {"zip", "copy"} -> "error.extract.extension-1",
   before |-> d[getExtensionDirectory(ext)]]

\* Last sub-step of an added or updated item.
Extract(o) ==
  /\ pc \in {"add", "update"}
  /\ sub = "extract"
  /\ disk' = extractExtension(disk, cur, o)
  /\ call' = extractCall(disk, cur, o)
  /\ ItemDone(extractOk(cur, o), steps)
  /\ failedAt' = IF extractOk(cur, o) THEN failedAt ELSE failedAt \cup {<<pc, idx>>}
  /\ failedSub' = IF extractOk(cur, o) THEN failedSub ELSE failedSub \cup {<<pc, idx, sub>>}
  /\ UNCHANGED <<registry, ledger, desired, given, patterns, auto, diff, obsCall, runs, prevClean>>

\* ---------------------------------------------------------- updateObsolete

DirNamesOf(exts) == {getExtensionDirectoryName(exts[k]) : k \in 1..Len(exts)}

\* Faulty variant of MergeObsolete: the two loops in the other order.
MergeObsoleteSetFirst(obsolete, added, removed, updated) ==
  (obsolete \cup DirNamesOf(removed)) \ DirNamesOf(added \o updated)

\* The two loops over the parsed map: delete the entries of added and
\* updated, then set the entries of removed.
MergeObsolete(obsolete, added, removed, updated) ==
  (obsolete \ DirNamesOf(added \o updated)) \cup DirNamesOf(removed)

\* Faulty variant of ObsoleteRead: a file that cannot be read counts as an empty map.
ObsoleteReadCreates(file, io) == io # "readErr"

\* fs.readJson succeeded and gave a map.
ObsoleteRead(file, io) == file.st = "map" /\ io # "readErr"

\* Faulty variant of updateObsolete: the merged map is always written, empty or not.
updateObsoleteAlwaysWrites(added, removed, updated, file, io) ==
  IF ~ObsoleteRead(file, io) THEN file
  ELSE IF io = "ok" THEN Ledger(MergeObsolete(file.keys, added, removed, updated)) ELSE file

\* The file after updateObsolete(added, removed, updated).  io: "ok",
\* "readErr" (fs.readJson throws), "writeErr" (fs.outputJson or fs.remove
\* throws).
updateObsolete(added, removed, updated, file, io) ==
  IF ~ObsoleteRead(file, io) THEN file
  ELSE LET obsolete == MergeObsolete(file.keys, added, removed, updated)
       IN IF Cardinality(obsolete) > 0
          THEN CASE io = "ok" -> Ledger(obsolete)
                 [] io = "writeErr" -> file
          ELSE CASE io = "ok" -> Absent
                 [] io = "writeErr" -> file

LedgerIO == {"ok", "readErr", "writeErr"}

\* Without a ledger map fs.readJson throws by itself and no other I/O follows.
IOPossible(file, io) == file.st = "map" \/ io = "ok"

\* Faulty variant of UpdateObsolete: an I/O error of the ledger rejects sync.
UpdateObsoleteRejects(io) ==
  /\ pc = "obsolete"
  /\ IOPossible(ledger, io)
  /\ ledger' = updateObsolete(AddedRecs, UpdatedRecs, RemovedRecs, ledger, io)
  /\ obsCall' = [called |-> obsCall.called + 1, added |-> AddedRecs, removed |-> UpdatedRecs,
                 updated |-> RemovedRecs, file |-> ledger, io |-> io]
  /\ pc' = IF io = "ok" THEN "done" ELSE "rejected"
  /\ result' = IF io = "ok" THEN result ELSE EmptyResult
  /\ UNCHANGED <<registry, disk, desired, given, call, patterns, auto, diff, idx, sub, steps,
                 cur, runs, prevClean, failedAt, failedSub>>

\* sync line 150: `await this.updateObsolete(added, updated, removed)`; the
\* parameters of updateObsolete are (added, removed, updated), in that order.
UpdateObsolete(io) ==
  /\ pc = "obsolete"
  /\ IOPossible(ledger, io)
  /\ LET arg1 == AddedRecs
         arg2 == UpdatedRecs
         arg3 == RemovedRecs
     IN /\ ledger' = updateObsolete(arg1, arg2, arg3, ledger, io)
        /\ obsCall' = [called |-> obsCall.called + 1, added |-> arg1, removed |-> arg2,
                       updated |-> arg3, file |-> ledger, io |-> io]
  /\ pc' = "done"
  /\ UNCHANGED <<registry, disk, desired, given, call, patterns, auto, diff, idx, sub, steps, result,
                 cur, runs, prevClean, failedAt, failedSub>>

\* ------------------------------------------------------------------ host

\* The registry entry the host builds from an extension directory.
EntryAt(path) ==
  IF path = BuiltinPath THEN Local("b", 1, TRUE) ELSE Local(path[1], path[2], FALSE)

Candidates(d, key) == {p \in Paths : d[p] = "payload" /\ Lower(p[1]) = key}

\* The registries a restart of the host can build from the disk: one entry
\* per ID that has an extension directory, whichever of its directories the
\* host picks.
Scans(d) ==
  {ra \o rb :
     ra \in IF Candidates(d, "a") = {} THEN {<<>>}
            ELSE {<<EntryAt(p)>> : p \in Candidates(d, "a")},
     rb \in IF Candidates(d, "b") = {} THEN {<<>>}
            ELSE {<<EntryAt(p)>> : p \in Candidates(d, "b")}}

\* The user reloads the host after a run.  A further run is followed only
\* after a run in which nothing failed.
Reload ==
  /\ pc = "done"
  /\ runs < MaxRuns
  /\ NoFailures(result)
  /\ obsCall.io = "ok"
  /\ registry' \in Scans(disk)
  /\ pc' = "idle"
  /\ UNCHANGED <<disk, ledger, desired, given, call, patterns, auto, diff, idx, sub, steps, result, cur,
                 obsCall, runs, prevClean, failedAt, failedSub>>

\* ------------------------------------------------------------- behaviours

DiskOf(reg) == [p \in Paths |-> IF \E k \in 1..Len(reg) : reg[k].extensionPath = p
                                THEN "payload" ELSE "absent"]

\* No run yet, default settings.
Idle ==
  /\ desired = <<>>
  /\ given = <<>>
  /\ call = NoInstall
  /\ patterns = {}
  /\ auto = AutoOff
  /\ diff = [added |-> <<>>, updated |-> <<>>, removed |-> <<>>]
  /\ pc = "idle"
  /\ idx = 0
  /\ sub = "none"
  /\ steps = 0
  /\ result = EmptyResult
  /\ cur = NoCur
  /\ obsCall = NoCall
  /\ runs = 0
  /\ prevClean = FALSE
  /\ failedAt = {}
  /\ failedSub = {}

Init ==
  /\ registry \in InitRegistries
  /\ disk = DiskOf(registry)
  /\ ledger \in InitLedgers
  /\ Idle

Next ==
  \/ /\ pc = "idle"
     /\ \E d \in SyncLists, p \in SyncPatternSets, au \in SyncAutoConfigs : Sync(d, p, au)
  \/ SyncAgain
  \/ \E o \in DownloadOutcomes : Download(o)
  \/ \E o \in UninstallOutcomes : Uninstall(o)
  \/ \E o \in ExtractOutcomes : Extract(o)
  \/ \E io \in LedgerIO : UpdateObsolete(io)
  \/ Reload

Spec == Init /\ [][Next]_vars

\* The continuations of a run: every awaited sub-step settles and the event
\* loop runs what awaits it.
RunStep ==
  \/ \E o \in DownloadOutcomes : Download(o)
  \/ \E o \in UninstallOutcomes : Uninstall(o)
  \/ \E o \in ExtractOutcomes : Extract(o)
  \/ \E io \in LedgerIO : UpdateObsolete(io)

\* One run, to its return.
NextLive ==
  \/ /\ pc = "idle"
     /\ \E d \in SyncLists, p \in SyncPatternSets, au \in SyncAutoConfigs : Sync(d, p, au)
  \/ RunStep

SpecLive == Init /\ [][NextLive]_vars /\ WF_vars(RunStep)

\* ------------------------------------------- updateObsolete called directly

MaxArgs == 1         \* longest list handed to a direct updateObsolete call

ObsRecords == {Ext("a", 1), Ext("a", 2), Ext("b", 1)}

ObsLists == SeqsUpTo(ObsRecords, MaxArgs)

ObsLedgers ==
  {Absent, Corrupt, Ledger({}), Ledger({<<"a", 1>>}), Ledger({<<"a", 1>>, <<"b", 1>>}),
   Ledger({<<"a", 2>>, <<"b", 2>>})}

\* updateObsolete is public: one call with any three lists.
Reconcile(added, removed, updated, io) ==
  /\ pc = "idle"
  /\ obsCall.called = 0
  /\ IOPossible(ledger, io)
  /\ ledger' = updateObsolete(added, removed, updated, ledger, io)
  /\ obsCall' = [called |-> obsCall.called + 1, added |-> added, removed |-> removed,
                 updated |-> updated, file |-> ledger, io |-> io]
  /\ UNCHANGED <<registry, disk, desired, given, call, patterns, auto, diff, pc, idx, sub, steps, result,
                 cur, runs, prevClean, failedAt, failedSub>>

InitObsolete ==
  /\ registry = <<>>
  /\ disk = DiskOf(registry)
  /\ ledger \in ObsLedgers
  /\ Idle

NextObsolete ==
  /\ obsCall.called = 0
  /\ \E a \in ObsLists, r \in ObsLists, u \in ObsLists, io \in LedgerIO : Reconcile(a, r, u, io)

SpecObsolete == InitObsolete /\ [][NextObsolete]_vars

\* --------------------------------------- the diff computed on its own

\* _getDifferentExtensions for any desired list, registry and settings.
DiffOnly(extensions, pats, au) ==
  /\ pc = "idle"
  /\ LET d == getDifferentExtensions(extensions, registry, pats, au)
     IN /\ desired' = d.desired
        /\ diff' = [added |-> d.added, updated |-> d.updated, removed |-> d.removed]
  /\ given' = extensions
  /\ patterns' = pats
  /\ auto' = au
  /\ pc' = "diffed"
  /\ UNCHANGED <<registry, disk, ledger, call, idx, sub, steps, result, cur, obsCall, runs,
                 prevClean, failedAt, failedSub>>

InitDiff ==
  /\ registry \in DiffRegistries
  /\ disk = DiskOf(registry)
  /\ ledger = Absent
  /\ Idle

NextDiff ==
  /\ pc = "idle"
  /\ \E d \in DesiredLists, p \in PatternSets, au \in AutoConfigs : DiffOnly(d, p, au)

SpecDiff == InitDiff /\ [][NextDiff]_vars

\* ---------------------------------------- extractExtension called directly

\* The records handed to a direct call: with and without an archive path.
InstallRecords ==
  {[Ext(id, v) EXCEPT !.vsixFilepath = f] :
     id \in {"a", "b"}, v \in Versions, f \in {"", "tmpfile"}}

InstallOutcomes == {"ok", "tmp", "zip", "copy"}

\* What the extension folder holds before the call.
InstallDisks ==
  {[p \in Paths |-> IF p = <<"a", 1>> THEN ca ELSE IF p = <<"b", 1>> THEN cb ELSE "absent"] :
     ca \in {"absent", "empty", "stale", "payload", "partial"}, cb \in {"absent", "payload"}}

\* extractExtension is public: one call with any record.
InstallDirect(ext, o) ==
  /\ pc = "idle"
  /\ disk' = extractExtension(disk, ext, o)
  /\ call' = extractCall(disk, ext, o)
  /\ cur' = ext
  /\ pc' = "installed"
  /\ UNCHANGED <<registry, ledger, desired, given, patterns, auto, diff, idx, sub, steps,
                 result, obsCall, runs, prevClean, failedAt, failedSub>>

InitInstall ==
  /\ registry = <<>>
  /\ disk \in InstallDisks
  /\ ledger = Absent
  /\ Idle

NextInstall ==
  /\ pc = "idle"
  /\ \E ext \in InstallRecords, o \in InstallOutcomes : InstallDirect(ext, o)

SpecInstall == InitInstall /\ [][NextInstall]_vars

\* ================================================================ claims

\* A sync run has computed its diff (the registry is the one the diff read).
InRun == pc \in {"diffed", "add", "update", "remove", "obsolete", "done"}

KeysOf(exts) == {Lower(exts[k].id) : k \in 1..Len(exts)}

Locals(id) == {l \in Range(registry) : Lower(l.id) = Lower(id)}

Excluded(id) == \E p \in patterns : minimatch(id, p)

IsDesired(id) == \E k \in 1..Len(desired) : Lower(desired[k].id) = Lower(id)

\* Some extension directory holds version v of the extension `key`.
InstalledAt(d, key, v) ==
  \E p \in Paths : d[p] = "payload" /\ Lower(EntryAt(p).id) = key /\ EntryAt(p).version = v

C2_Disjoint ==
  InRun =>
    /\ KeysOf(AddedRecs) \cap KeysOf(UpdatedRecs) = {}
    /\ KeysOf(AddedRecs) \cap KeysOf(RemovedRecs) = {}
    /\ KeysOf(UpdatedRecs) \cap KeysOf(RemovedRecs) = {}

\* C3 (as stated): the diff of a second run with the same desired list, after
\* a first run without a failed item and a reload of the host, is empty.
C3_Idempotent ==
  (runs >= 2 /\ InRun /\ prevClean) =>
    (diff.added = <<>> /\ diff.updated = <<>> /\ diff.removed = <<>>)

\* C4: every desired record is classified by the registry entry of its ID:
\* none -> in added; one of the record's (rewritten) version -> in neither
\* added nor updated and its ID is kept from removed; one of another version
\* -> in updated, excluded or not.
C4_Classification ==
  InRun =>
    \A k \in 1..Len(desired) :
      /\ (Locals(desired[k].id) = {}) => (k \in Range(diff.added) /\ k \notin Range(diff.updated))
      /\ \A l \in Locals(desired[k].id) :
           /\ (l.version = desired[k].version) =>
                /\ k \notin Range(diff.added)
                /\ k \notin Range(diff.updated)
                /\ Lower(l.id) \notin KeysOf(diff.removed)
           /\ (l.version # desired[k].version) =>
                (k \in Range(diff.updated) /\ k \notin Range(diff.added))

\* C4's case: an installed extension an exclusion pattern matches is desired
\* at another version and is in updated, next to a reserved one.
C4_Witness ==
  /\ InRun
  /\ \E i \in 1..Len(diff.updated) :
       /\ Excluded(UpdatedRecs[i].id)
       /\ \E l \in Locals(UpdatedRecs[i].id) : l.version # UpdatedRecs[i].version
  /\ \E k \in 1..Len(desired) : \E l \in Locals(desired[k].id) : l.version = desired[k].version

\* The IDs the diff reserves: desired and installed at the desired version.
ReservedKeys ==
  {Lower(desired[k].id) :
     k \in {j \in 1..Len(desired) :
              \E l \in Locals(desired[j].id) : l.version = desired[j].version}}

ExpectedRemoved ==
  {l \in Range(registry) : ~l.isBuiltin /\ ~Excluded(l.id) /\ Lower(l.id) \notin ReservedKeys}

\* C5: removed holds exactly the installed, non-built-in extensions that no
\* exclusion pattern matches and whose ID is not reserved, each once.
C5_Removed ==
  InRun =>
    /\ {<<r.id, r.version>> : r \in Range(diff.removed)}
         = {<<l.id, l.version>> : l \in ExpectedRemoved}
    /\ Len(diff.removed) = Cardinality(ExpectedRemoved)

\* C5's case: an installed extension that is excluded and not desired stays
\* out of removed while another extension is removed.
C5_Witness ==
  /\ InRun
  /\ diff.removed # <<>>
  /\ \E l \in Range(registry) :
       ~l.isBuiltin /\ Excluded(l.id) /\ ~IsDesired(l.id) /\ Lower(l.id) \notin KeysOf(diff.removed)

\* C9 (as stated): after a run that found a ledger and had no ledger I/O
\* error, the ledger marks every extension classified as removed, holds no
\* entry of an added or updated one, and was reconciled once.
C9_LedgerAfterSync ==
  (pc = "done" /\ obsCall.file.st = "map" /\ obsCall.io = "ok") =>
    /\ obsCall.called = 1
    /\ \A n \in DirNamesOf(RemovedRecs) : ledger.st = "map" /\ n \in ledger.keys
    /\ \A n \in DirNamesOf(AddedRecs \o UpdatedRecs) : n \notin ledger.keys

\* The items of a stage's list, as sync hands them to the stage.
Positions(stage) == 1..Len(StageList(diff, stage))

Stages == {"add", "update", "remove"}

Occurrences(seq, x) == Cardinality({i \in 1..Len(seq) : seq[i] = x})

\* C6: once the three stages have run, every item of every stage's input is
\* in exactly one of the stage's two sequences, once: in the failed one if
\* one of its sub-steps failed and in the succeeded one otherwise; the
\* sequences hold nothing else, whatever failed before or after an item.
C6_Isolation ==
  pc \in {"obsolete", "done"} =>
    \A s \in Stages :
      /\ Len(result[OkField(s)]) + Len(result[ErrField(s)]) = Len(StageList(diff, s))
      /\ \A i \in Positions(s) :
           LET item == StageList(diff, s)[i]
           IN IF <<s, i>> \in failedAt
              THEN /\ Occurrences(result[ErrField(s)], item) = 1
                   /\ Occurrences(result[OkField(s)], item) = 0
              ELSE /\ Occurrences(result[OkField(s)], item) = 1
                   /\ Occurrences(result[ErrField(s)], item) = 0

\* C6's case: in one stage an item fails, a later item of the stage succeeds
\* and one after a failure fails too; the run has left the stages.
C6_Witness ==
  /\ pc = "done"
  /\ \E s \in Stages : \E i, j \in Positions(s) :
       i < j /\ <<s, i>> \in failedAt /\ <<s, j>> \notin failedAt
  /\ \E s \in Stages : \E i, j \in Positions(s) :
       i < j /\ <<s, i>> \in failedAt /\ <<s, j>> \in failedAt

Finished(s) == Len(result[OkField(s)]) + Len(result[ErrField(s)])

\* The items of seq are items of list, in the list's order.
InOrderOf(seq, list) ==
  \A a, b \in 1..Len(seq) :
    a < b => \E i, j \in 1..Len(list) : i < j /\ list[i] = seq[a] /\ list[j] = seq[b]

\* C7: while a stage runs, every earlier stage has finished all its items and
\* no later stage has finished any; the items finished in the running stage
\* are exactly those before the current one, and each result sequence keeps
\* the input order.
C7_StageOrder ==
  InRun =>
    /\ pc = "add" => Finished("add") = idx - 1 /\ Finished("update") = 0 /\ Finished("remove") = 0
    /\ pc = "update" =>
         /\ Finished("add") = Len(diff.added)
         /\ Finished("update") = idx - 1
         /\ Finished("remove") = 0
    /\ pc = "remove" =>
         /\ Finished("add") = Len(diff.added)
         /\ Finished("update") = Len(diff.updated)
         /\ Finished("remove") = idx - 1
    /\ pc \in {"obsolete", "done"} => \A s \in Stages : Finished(s) = Len(StageList(diff, s))
    /\ pc \in Stages =>
         /\ idx \in Positions(pc)
         /\ Range(result[OkField(pc)]) \cup Range(result[ErrField(pc)])
              = {StageList(diff, pc)[i] : i \in 1..(idx - 1)}
    /\ \A s \in Stages :
         /\ InOrderOf(result[OkField(s)], StageList(diff, s))
         /\ InOrderOf(result[ErrField(s)], StageList(diff, s))

\* C7's case: the remove stage runs after an add stage and an update stage
\* that each had an item, the updated one having failed.
C7_Witness ==
  /\ pc = "remove"
  /\ diff.added # <<>>
  /\ diff.updated # <<>>
  /\ <<"update", 1>> \in failedAt

\* C8: a direct call that finds a ledger map and has no I/O error leaves
\* exactly the old entries that are of no added or updated extension, plus
\* an entry for every removed extension (a map without entries: no file).
C8_Reconcile ==
  (obsCall.called > 0 /\ obsCall.file.st = "map" /\ obsCall.io = "ok") =>
    /\ ledger.st \in {"map", "absent"}
    /\ \A n \in DirNames :
         (n \in ledger.keys) <=>
           \/ n \in DirNamesOf(obsCall.removed)
           \/ /\ n \in obsCall.file.keys
              /\ n \notin DirNamesOf(obsCall.added)
              /\ n \notin DirNamesOf(obsCall.updated)

\* C8's example: {A, B} with added = [A], removed = [C] ends as {B, C}.
C8_Witness ==
  /\ obsCall.called > 0
  /\ obsCall.io = "ok"
  /\ obsCall.file = Ledger({<<"a", 1>>, <<"b", 1>>})
  /\ obsCall.added = <<Ext("a", 1)>>
  /\ obsCall.updated = <<>>
  /\ obsCall.removed = <<Ext("a", 2)>>
  /\ ledger = Ledger({<<"b", 1>>, <<"a", 2>>})

\* C10: after a call that read a ledger map and had no I/O error the file is
\* absent or holds at least one entry.
C10_NoEmptyFile ==
  (obsCall.called > 0 /\ obsCall.file.st = "map" /\ obsCall.io = "ok") =>
    \/ ledger.st = "absent"
    \/ ledger.st = "map" /\ ledger.keys # {}

\* C10's case: the merge of a ledger with entries came out empty and the
\* file is gone.
C10_Witness ==
  /\ obsCall.called > 0
  /\ obsCall.io = "ok"
  /\ obsCall.file.st = "map"
  /\ obsCall.file.keys # {}
  /\ obsCall.added # <<>>
  /\ ledger = Absent

\* C11: a reconciliation that finds no ledger file, or one that does not
\* parse, leaves the file as it was, whatever the three lists hold.
C11_NoLedgerNoChange ==
  (obsCall.called > 0 /\ obsCall.file.st \in {"absent", "corrupt"}) => ledger = obsCall.file

\* C11's case: an unparsable file, a call with an extension to mark.
C11_Witness ==
  /\ obsCall.called > 0
  /\ obsCall.file = Corrupt
  /\ obsCall.removed # <<>>
  /\ obsCall.added # <<>>
  /\ ledger = Corrupt

\* C12: whatever the ledger I/O does, the step after the stages ends the run
\* normally and leaves the six result sequences as the stages built them.
C12_LedgerIOSwallowed ==
  [][pc = "obsolete" => (pc' = "done" /\ result' = result)]_vars

\* C12's case: a run with a succeeded and a failed item has returned after a
\* ledger write error.
C12_Witness ==
  /\ pc = "done"
  /\ obsCall.io = "writeErr"
  /\ \E s \in Stages : result[OkField(s)] # <<>>
  /\ \E s \in Stages : result[ErrField(s)] # <<>>

\* sync is between its diff and its return.
Running == pc \in {"add", "update", "remove", "obsolete"}

\* C13: a run that has started returns, with every item of every stage in one
\* of the stage's two sequences, whatever sub-steps fail.
C13_Returns ==
  Running ~> (pc = "done" /\ \A s \in Stages : Finished(s) = Len(StageList(diff, s)))

\* C13's case: a run of at least two items, all of which failed, has returned.
C13_Witness ==
  /\ pc = "done"
  /\ total(diff) >= 2
  /\ \A s \in Stages : \A i \in Positions(s) : <<s, i>> \in failedAt
  /\ \A s \in Stages : Len(result[ErrField(s)]) = Len(StageList(diff, s))

\* Items of the run whose loop body has begun (its `steps++` and first
\* showSpinner are before the first await of the body).
Started ==
  Finished("add") + Finished("update") + Finished("remove")
    + (IF pc \in {"add", "update"} /\ sub # "download" THEN 1 ELSE 0)

\* C14: `steps`, the currentStep handed to showSpinner, is the number of items
\* begun so far in the run, over all stages and whatever failed; it never
\* exceeds the diff's total and is the total once the last item has begun.
C14_Progress ==
  (Running \/ pc = "done") =>
    /\ steps = Started
    /\ steps <= total(diff)
    /\ (Started > 0 => steps >= 1)
    /\ (pc \in {"obsolete", "done"} => steps = total(diff))

\* C14's case: a run with an item in each stage, the first of which failed,
\* has counted to the total.
C14_Witness ==
  /\ pc = "done"
  /\ diff.added # <<>>
  /\ diff.updated # <<>>
  /\ diff.removed # <<>>
  /\ <<"add", 1>> \in failedAt
  /\ steps = total(diff)

RemovedEntries == {<<r.id, r.version>> : r \in Range(diff.removed)}

\* C15: a desired record whose installed counterpart has the same version and
\* an ID of another letter case is in neither added nor updated and its
\* counterpart is not in removed; an installed extension whose ID an
\* exclusion pattern equals up to letter case is not in removed.
C15_CaseInsensitive ==
  InRun =>
    /\ \A k \in 1..Len(desired) : \A l \in Range(registry) :
         (Lower(l.id) = Lower(desired[k].id) /\ l.version = desired[k].version) =>
           /\ k \notin Range(diff.added)
           /\ k \notin Range(diff.updated)
           /\ <<l.id, l.version>> \notin RemovedEntries
    /\ \A l \in Range(registry) : \A p \in patterns :
         Lower(p) = Lower(l.id) => <<l.id, l.version>> \notin RemovedEntries

\* C15's case: a desired ID is reserved through a counterpart of another
\* letter case, and an undesired user extension is kept by a pattern that
\* differs from its ID in letter case only.
C15_Witness ==
  /\ InRun
  /\ \E k \in 1..Len(desired) : \E l \in Range(registry) :
       /\ l.id # desired[k].id
       /\ Lower(l.id) = Lower(desired[k].id)
       /\ l.version = desired[k].version
       /\ k \notin Range(diff.added) \cup Range(diff.updated)
  /\ \E l \in Range(registry) : \E p \in patterns :
       /\ p # l.id
       /\ Lower(p) = Lower(l.id)
       /\ ~l.isBuiltin
       /\ ~IsDesired(l.id)
       /\ <<l.id, l.version>> \notin RemovedEntries

\* The sub-step that may follow a succeeded sub-step of the same item.
SubOrder ==
  {<<"add", "download", "extract">>,
   <<"update", "download", "uninstall">>,
   <<"update", "uninstall", "extract">>}

LastSub(stage) == IF stage = "remove" THEN "uninstall" ELSE "extract"

\* What holds while an item is at a sub-step.
SubStepState ==
  pc \in Stages =>
    /\ <<pc, idx>> \notin failedAt
    /\ pc = "remove" => sub = "uninstall"
    /\ pc = "add" => sub \in {"download", "extract"}
    /\ (pc \in {"add", "update"} /\ sub # "download") => cur.vsixFilepath # ""
    /\ (pc = "update" /\ sub = "extract") => disk[UninstallPath(registry, cur)] = "absent"

\* What a step of an item does.
SubStepMove ==
  /\ (pc' \in Stages /\ (pc' # pc \/ idx' # idx)) => sub' = FirstSub(pc')
  /\ pc \in Stages =>
       /\ (pc' = pc /\ idx' = idx) => (<<pc, sub, sub'>> \in SubOrder /\ failedAt' = failedAt)
       /\ (pc' # pc \/ idx' # idx) => (<<pc, idx>> \in failedAt' \/ sub = LastSub(pc))
       /\ sub = "download" => disk' = disk
       /\ sub = "uninstall" => \A p \in Paths : disk'[p] # disk[p] => disk'[p] = "absent"

\* C16: an updated item goes download, uninstall, extract, an added one
\* download, extract, a removed one uninstall only; a sub-step starts only
\* after the one before it has succeeded (the archive is there before the
\* uninstall, the previous directory is gone before the install), and after a
\* failed sub-step the item is over.
C16_SubSteps == [](SubStepState) /\ [][SubStepMove]_vars

\* C16's case: an updated item is about to be installed, its download and the
\* uninstall of the previous version done, after an added item failed.
C16_Witness ==
  /\ pc = "update"
  /\ sub = "extract"
  /\ <<"add", 1>> \in failedAt
  /\ disk[UninstallPath(registry, cur)] = "absent"

SameID(j, k) == Lower(desired[j].id) = Lower(desired[k].id)

\* C17 (as stated): of several desired records with one ID only the last is
\* classified: no earlier occurrence is in added or updated.
C17_LastWins ==
  InRun =>
    \A j, k \in 1..Len(desired) :
      (j < k /\ SameID(j, k)) => j \notin Range(diff.added) \cup Range(diff.updated)

\* The registry's answer for a record supplies a version and a download URL.
Supplied(ext) ==
  auto.q[Lower(ext.id)].version # 0 /\ auto.q[Lower(ext.id)].downloadURL # ""

\* C18: with auto-update on, a record whose metadata supplies a version and a
\* download URL carries both after the diff; every other record, and every
\* record when auto-update is off, is as it was given and is classified by
\* the version it was given with.
C18_AutoUpdate ==
  pc = "diffed" =>
    /\ Len(desired) = Len(given)
    /\ \A k \in 1..Len(given) :
         IF auto.on /\ Supplied(given[k])
         THEN /\ desired[k].id = given[k].id
              /\ desired[k].version = auto.q[Lower(given[k].id)].version
              /\ desired[k].downloadURL = auto.q[Lower(given[k].id)].downloadURL
         ELSE /\ desired[k] = given[k]
              /\ (Locals(given[k].id) = {}) <=> (k \in Range(diff.added))
              /\ (\E l \in Locals(given[k].id) : l.version # given[k].version)
                   <=> (k \in Range(diff.updated))

\* C18's case: with auto-update on, one record was rewritten to a version it
\* was not given with and another, without metadata, was kept.
C18_Witness ==
  /\ pc = "diffed"
  /\ auto.on
  /\ \E k \in 1..Len(given) : Supplied(given[k]) /\ desired[k].version # given[k].version
  /\ \E k \in 1..Len(given) : ~Supplied(given[k]) /\ desired[k] = given[k]

\* C19: a call of extractExtension with a record without archive path
\* rejects with the precondition message, leaves every directory as it was
\* and asks for no temporary directory.
C19_NoArchivePath ==
  [][(pc = "idle" /\ pc' = "installed" /\ cur'.vsixFilepath = "") =>
       /\ call'.error = "error.extract.extension-3"
       /\ ~call'.tmpdir
       /\ disk' = disk]_vars

\* C19's case: the call was for a record without archive path whose target
\* directory held files, and holds them still.
C19_Witness ==
  /\ pc = "installed"
  /\ cur.vsixFilepath = ""
  /\ call.before = "stale"
  /\ disk[getExtensionDirectory(cur)] = "stale"
  /\ call.error = "error.extract.extension-3"

\* C20: after a call of extractExtension that resolved, the target directory
\* holds the payload and nothing else, whatever it held before.
C20_ExactPayload ==
  (pc = "installed" /\ call.error = "none") => disk[getExtensionDirectory(cur)] = "payload"

\* C20's case: the install resolved on a target that held stale files.
C20_Witness ==
  /\ pc = "installed"
  /\ call.error = "none"
  /\ call.before = "stale"
  /\ disk[getExtensionDirectory(cur)] = "payload"

\* The registry entry a desired record was classified against.
Counterpart(ext) == getExtensionById(registry, ext.id)

Reserved(k) == Classify(registry, desired[k]) = "reserved"

\* C21 (as stated): an extension the diff reserved is the subject of no item
\* of any stage, and its installed directory holds after the diff and to the
\* end of the run what it held before.
C21_ReservedUntouched ==
  (Running \/ pc = "done") =>
    \A k \in 1..Len(desired) :
      Reserved(k) =>
        /\ Lower(desired[k].id) \notin KeysOf(AddedRecs \o UpdatedRecs \o RemovedRecs)
        /\ disk[Counterpart(desired[k]).extensionPath] = "payload"

\* C22 (as stated): when sync has returned, the installed version of every
\* updated item whose download failed is still installed.
C22_FailedDownloadKeeps ==
  pc = "done" =>
    \A i \in Positions("update") :
      <<"update", i, "download">> \in failedSub =>
        disk[Counterpart(UpdatedRecs[i]).extensionPath] = "payload"
====
